---- MODULE Spec2Model ----
(***************************************************************************)
(* Model of process_monitor.py: the watchdog loop of main(), the recovery  *)
(* strategies it calls, the webhook notifier and the argument validation   *)
(* block that the source places inside the loop (lines 129-143).           *)
(*                                                                         *)
(* Time is the reading of time.time(), in whole units; the clock may move  *)
(* between any two statements (TimePasses) and readings are observed up to *)
(* MaxTime.  Python's None is the value None (-1) for numeric fields and   *)
(* FALSE for the optional string arguments (name, pid, service, start_cmd, *)
(* webhook), which the code only ever tests for truth.                     *)
(***************************************************************************)
EXTENDS Integers, Sequences, FiniteSets, TLC

\* ---------------------------------------------------------------- bounds
MaxTime == 4
MaxProcs == 2

None == -1

ThresholdValues == {None, 0, 1}
UsageValues == {0, 1, 2}
Intervals == {1}
Cooldowns == {2}

VARIABLES
    args,          \* the args namespace main() reads
    is_main,       \* __name__ == "__main__" in the module's globals
    pc,            \* position of main()
    now,           \* the clock time.time() reads
    last_action,   \* main's local last_action
    procs,         \* len(procs) of the current tick
    i,             \* index of the for loop over procs
    mem_mb, cpu,   \* the sample of the process under evaluation
    action_taken,  \* main's local action_taken
    cur,           \* history: what was done for the trigger being handled
    last_disp,     \* history: time of the latest strategy invocation
    act_stamp      \* history: last_action as stamped when the latest
                   \* trigger that invoked a strategy was completed

vars == <<args, is_main, pc, now, last_action, procs, i, mem_mb, cpu,
          action_taken, cur, last_disp, act_stamp>>

\* ------------------------------------------------------------- arguments
ArgSpace ==
    [name: BOOLEAN, pid: BOOLEAN,
     max_mem_mb: ThresholdValues, max_cpu: ThresholdValues,
     interval: Intervals, service: BOOLEAN, start_cmd: BOOLEAN,
     webhook: BOOLEAN, cooldown: Cooldowns]

\* The namespaces the watchdog loop is run with: the memory threshold set,
\* the CPU threshold set or absent.  (The threshold test is run over every
\* pair of thresholds under SpecTrips.)
LoopArgs == {a \in ArgSpace : a.max_mem_mb = 1 /\ a.max_cpu \in {None, 1}}

\* parser.parse_args() of a command line that leaves the thresholds at
\* their defaults (lines 133-134): both are set, never None.
ParsedArgs == {a \in LoopArgs : a.max_mem_mb # None /\ a.max_cpu # None}

\* args.pid or args.name: a selector was given.
HasSelector(a) == a.name \/ a.pid

\* Python truth of a number-or-None value.
Truthy(x) == x # None /\ x # 0

\* Mutant: the gate opens at exactly cooldown seconds.
GateOpen_AtCooldown(la, t, cd) == (~Truthy(la)) \/ (t - la) >= cd

\* not last_action or (time.time() - last_action) > args.cooldown
GateOpen(la, t, cd) == (~Truthy(la)) \/ (t - la) > cd

\* Mutant: the comparisons made inclusive.
Trips_Inclusive(a, m, c) ==
    \/ (Truthy(a.max_mem_mb) /\ m >= a.max_mem_mb)
    \/ (Truthy(a.max_cpu) /\ c >= a.max_cpu)

\* (args.max_mem_mb and mem_mb > args.max_mem_mb) or
\* (args.max_cpu and cpu > args.max_cpu)
Trips(a, m, c) ==
    \/ (Truthy(a.max_mem_mb) /\ m > a.max_mem_mb)
    \/ (Truthy(a.max_cpu) /\ c > a.max_cpu)

\* ------------------------------------------------------------ strategies
\* Outcome of the command a strategy runs: exit status zero, a non-zero
\* exit status (CalledProcessError), or the command could not be run.
RunOutcomes == {"zero", "nonzero", "oserror"}

\* Both wrappers catch Exception and report (ok, msg): nothing escapes.
RestartViaSystemctl(o) ==
    [ok |-> o = "zero", ops |-> <<"systemctl">>, raised |-> FALSE]

\* Mutant: only CalledProcessError is caught.
RestartViaCommand_Escapes(o) ==
    [ok |-> o = "zero", ops |-> <<"run">>, raised |-> o = "oserror"]

RestartViaCommand(o) ==
    [ok |-> o = "zero", ops |-> <<"run">>, raised |-> FALSE]

\* What can happen inside kill_and_start: proc.name() raises, terminate()
\* raises, wait() times out, kill() raises, Popen raises.
KillOutcomes ==
    [name_ok: BOOLEAN, term_ok: BOOLEAN, timeout: BOOLEAN,
     kill_ok: BOOLEAN, spawn_ok: BOOLEAN]

\* Mutant: the start command is launched whether configured or not.
KillAndStart_AlwaysSpawn(start_cmd, o) ==
    IF ~o.name_ok THEN [ok |-> FALSE, ops |-> <<>>, raised |-> FALSE]
    ELSE IF ~o.term_ok
         THEN [ok |-> FALSE, ops |-> <<"terminate">>, raised |-> FALSE]
    ELSE [ok |-> o.spawn_ok, ops |-> <<"terminate", "spawn">>,
          raised |-> FALSE]

\* The calls kill_and_start issues, in order, and its result.
KillAndStart(start_cmd, o) ==
    IF ~o.name_ok THEN [ok |-> FALSE, ops |-> <<>>, raised |-> FALSE]
    ELSE IF ~o.term_ok
         THEN [ok |-> FALSE, ops |-> <<"terminate">>, raised |-> FALSE]
    ELSE IF o.timeout /\ ~o.kill_ok
         THEN [ok |-> FALSE, ops |-> <<"terminate", "kill">>, raised |-> FALSE]
    ELSE LET k == IF o.timeout THEN <<"terminate", "kill">>
                  ELSE <<"terminate">>
         IN IF start_cmd
            THEN [ok |-> o.spawn_ok, ops |-> Append(k, "spawn"),
                  raised |-> FALSE]
            ELSE [ok |-> TRUE, ops |-> k, raised |-> FALSE]

\* notify_webhook: what the call does, given whether the requests module
\* was importable and whether the POST went through.
NotifyOutcomes == [requests: BOOLEAN, post_ok: BOOLEAN]

NotifyWebhook(webhook_url, o) ==
    IF ~webhook_url THEN "noop"
    ELSE IF ~o.requests THEN "no_requests"
    ELSE IF o.post_ok THEN "posted"
    ELSE "post_failed"

\* ---------------------------------------------------------------- history
\* cur describes the trigger being handled: its kind, the clock and
\* last_action when it was detected, the latest strategy invocation of an
\* earlier trigger (prev), the first one of this trigger (first), the
\* strategies invoked and the notifier calls made for it.
NoTrigger ==
    [kind |-> "none", t0 |-> 0, la0 |-> None, prev |-> None, first |-> None,
     inv |-> <<>>, notes |-> <<>>, done |-> FALSE]

NewTrigger(k) ==
    [kind |-> k, t0 |-> now, la0 |-> last_action, prev |-> last_disp,
     first |-> None, inv |-> <<>>, notes |-> <<>>, done |-> FALSE]

Invoked(c, s, r) ==
    [c EXCEPT !.inv = Append(@, [s |-> s, ok |-> r.ok, ops |-> r.ops]),
              !.first = IF @ = None THEN now ELSE @]

Finished(c) == [c EXCEPT !.done = TRUE]

LoopPcs == {"resolve", "notfound", "nf_notify", "nf_stamp", "loop", "eval", "svc",
            "cmd", "kill", "notify", "stamp", "sleep", "validate"}

TypeOK ==
    /\ args \in ArgSpace
    /\ is_main \in BOOLEAN
    /\ pc \in LoopPcs \cup {"main", "exited", "crashed"}
    /\ now \in 1..MaxTime
    /\ last_action \in {None} \cup 1..MaxTime
    /\ procs \in 0..MaxProcs
    /\ i \in 1..MaxProcs
    /\ mem_mb \in {None} \cup UsageValues
    /\ cpu \in {None} \cup UsageValues
    /\ action_taken \in BOOLEAN
    /\ last_disp \in {None} \cup 1..MaxTime
    /\ act_stamp \in {None} \cup 1..MaxTime

\* ------------------------------------------------------------------ Init
\* main(args) is entered by a caller with any namespace: nothing in the
\* module validates it before the loop.
Init ==
    /\ args \in LoopArgs
    /\ is_main \in BOOLEAN
    /\ pc = "main"
    /\ now = 1
    /\ last_action = None
    /\ procs = 0
    /\ i = 1
    /\ mem_mb = None
    /\ cpu = None
    /\ action_taken = FALSE
    /\ cur = NoTrigger
    /\ last_disp = None
    /\ act_stamp = None

\* ---------------------------------------------------- the step conditions
\* Mutant: the not-found start attempt ignores the cooldown.
NotFoundGuard_NoGate == args.start_cmd

\* Line 93.
NotFoundGuard ==
    args.start_cmd /\ GateOpen(last_action, now, args.cooldown)

\* Line 110.
ServiceGuard ==
    args.service /\ GateOpen(last_action, now, args.cooldown)

\* Mutant: the start command does not look at action_taken.
StartCmdGuard_NoFlag ==
    args.start_cmd /\ GateOpen(last_action, now, args.cooldown)

\* Line 114.
StartCmdGuard ==
    ~action_taken /\ args.start_cmd
    /\ GateOpen(last_action, now, args.cooldown)

\* Mutant: the fallback does not look at action_taken.
KillGuard_NoFlag == GateOpen(last_action, now, args.cooldown)

\* Line 118.
KillGuard ==
    ~action_taken /\ GateOpen(last_action, now, args.cooldown)

\* ----------------------------------------------------------------- steps
\* main(), lines 77-78.
Main ==
    /\ pc = "main"
    /\ last_action' = None
    /\ pc' = "resolve"
    /\ cur' = NoTrigger
    /\ last_disp' = None
    /\ UNCHANGED <<args, is_main, now, procs, i, mem_mb, cpu, action_taken>>
    /\ act_stamp' = None

\* How many handles the resolver can return: psutil.Process(int(pid)) or
\* nothing in PID mode, any number of matches in name mode.
Found(a) == IF a.pid THEN 0..1 ELSE 0..MaxProcs

\* Lines 80-90.  With neither pid nor name, find_processes_by_name(None)
\* evaluates `None in <str>` for the first process that has a command line
\* (the watchdog itself is one): TypeError, which nothing catches.
Resolve ==
    /\ pc = "resolve"
    /\ \/ /\ HasSelector(args)
          /\ \E n \in Found(args) :
               /\ procs' = n
               /\ pc' = IF n = 0 THEN "notfound" ELSE "loop"
       \/ /\ ~HasSelector(args)
          /\ pc' = "crashed"
          /\ UNCHANGED procs
    /\ i' = 1
    /\ cur' = NoTrigger
    /\ UNCHANGED <<args, is_main, now, last_action, mem_mb, cpu,
                   action_taken, last_disp>>
    /\ UNCHANGED act_stamp

\* Lines 90-96: the not-found branch up to the test of ok.
NotFound ==
    /\ pc = "notfound"
    /\ IF NotFoundGuard
       THEN \E o \in RunOutcomes :
              LET r == RestartViaCommand(o)
                  c == Invoked(NewTrigger("notfound"), "cmd", r)
              IN /\ cur' = IF r.ok THEN c ELSE Finished(c)
                 /\ last_disp' = now
                 /\ pc' = IF r.raised THEN "crashed"
                          ELSE IF r.ok THEN "nf_notify" ELSE "sleep"
       ELSE /\ cur' = Finished(NewTrigger("notfound"))
            /\ pc' = "sleep"
            /\ UNCHANGED last_disp
    /\ UNCHANGED <<args, is_main, now, last_action, procs, i, mem_mb, cpu,
                   action_taken>>
    /\ UNCHANGED act_stamp

\* Line 97.
NfNotify ==
    /\ pc = "nf_notify"
    /\ \E o \in NotifyOutcomes :
         cur' = [cur EXCEPT !.notes = Append(@, NotifyWebhook(args.webhook, o))]
    /\ pc' = "nf_stamp"
    /\ UNCHANGED <<args, is_main, now, last_action, procs, i, mem_mb, cpu,
                   action_taken, last_disp>>
    /\ UNCHANGED act_stamp

\* Line 98.
NfStamp ==
    /\ pc = "nf_stamp"
    /\ last_action' = now
    /\ cur' = Finished(cur)
    /\ pc' = "sleep"
    /\ UNCHANGED <<args, is_main, now, procs, i, mem_mb, cpu, action_taken,
                   last_disp>>
    /\ act_stamp' = now

\* The for loop of line 101 moving to the next handle, or to line 127.
\* The locals of the finished iteration are dead: each is assigned again
\* before it is read, and the model holds them at their initial values.
NextProc ==
    /\ IF i < procs
       THEN /\ i' = i + 1
            /\ pc' = "loop"
       ELSE /\ i' = 1
            /\ pc' = "sleep"
    /\ mem_mb' = None
    /\ cpu' = None
    /\ action_taken' = FALSE

\* Mutant: the exception of a vanished handle ends the for loop.
Sample_GoneEndsTick ==
    /\ pc = "loop"
    /\ \/ /\ i' = 1
          /\ pc' = "sleep"
          /\ mem_mb' = None
          /\ cpu' = None
          /\ action_taken' = FALSE
          /\ cur' = [NoTrigger EXCEPT !.kind = "gone"]
       \/ \E m \in UsageValues, c \in UsageValues :
            /\ mem_mb' = m
            /\ cpu' = c
            /\ pc' = "eval"
            /\ cur' = NoTrigger
            /\ UNCHANGED <<i, action_taken>>
    /\ UNCHANGED <<args, is_main, now, last_action, procs, last_disp>>
    /\ UNCHANGED act_stamp

\* Lines 101-105 and 124-125: sample one handle; NoSuchProcess or
\* AccessDenied from either read skips the handle.
Sample ==
    /\ pc = "loop"
    /\ \/ /\ NextProc
          /\ cur' = [NoTrigger EXCEPT !.kind = "gone"]
       \/ \E m \in UsageValues, c \in UsageValues :
            /\ mem_mb' = m
            /\ cpu' = c
            /\ pc' = "eval"
            /\ cur' = NoTrigger
            /\ UNCHANGED <<i, action_taken>>
    /\ UNCHANGED <<args, is_main, now, last_action, procs, last_disp>>
    /\ UNCHANGED act_stamp

\* Lines 106-109: the threshold test.  After it the sample is read only to
\* format the message of line 122, whose text the model does not carry.
Evaluate ==
    /\ pc = "eval"
    /\ IF Trips(args, mem_mb, cpu)
       THEN /\ action_taken' = FALSE
            /\ cur' = NewTrigger("trip")
            /\ pc' = "svc"
            /\ mem_mb' = None
            /\ cpu' = None
            /\ UNCHANGED i
       ELSE /\ NextProc
            /\ UNCHANGED cur
    /\ UNCHANGED <<args, is_main, now, last_action, procs, last_disp>>
    /\ UNCHANGED act_stamp

\* Lines 110-113.
StepService ==
    /\ pc = "svc"
    /\ IF ServiceGuard
       THEN \E o \in RunOutcomes :
              LET r == RestartViaSystemctl(o)
              IN /\ action_taken' = r.ok
                 /\ cur' = Invoked(cur, "svc", r)
                 /\ last_disp' = now
                 /\ pc' = IF r.raised THEN "crashed" ELSE "cmd"
       ELSE /\ pc' = "cmd"
            /\ UNCHANGED <<action_taken, cur, last_disp>>
    /\ UNCHANGED <<args, is_main, now, last_action, procs, i, mem_mb, cpu>>
    /\ UNCHANGED act_stamp

\* Lines 114-117.
StepStartCmd ==
    /\ pc = "cmd"
    /\ IF StartCmdGuard
       THEN \E o \in RunOutcomes :
              LET r == RestartViaCommand(o)
              IN /\ action_taken' = r.ok
                 /\ cur' = Invoked(cur, "cmd", r)
                 /\ last_disp' = now
                 /\ pc' = IF r.raised THEN "crashed" ELSE "kill"
       ELSE /\ pc' = "kill"
            /\ UNCHANGED <<action_taken, cur, last_disp>>
    /\ UNCHANGED <<args, is_main, now, last_action, procs, i, mem_mb, cpu>>
    /\ UNCHANGED act_stamp

\* Lines 118-121.
StepKill ==
    /\ pc = "kill"
    /\ IF KillGuard
       THEN \E o \in KillOutcomes :
              LET r == KillAndStart(args.start_cmd, o)
              IN /\ action_taken' = r.ok
                 /\ cur' = Invoked(cur, "kill", r)
                 /\ last_disp' = now
                 /\ pc' = IF r.raised THEN "crashed" ELSE "notify"
       ELSE /\ pc' = "notify"
            /\ UNCHANGED <<action_taken, cur, last_disp>>
    /\ UNCHANGED <<args, is_main, now, last_action, procs, i, mem_mb, cpu>>
    /\ UNCHANGED act_stamp

\* Mutant: a failed delivery ends the iteration before line 123.
Notify_FailureSkipsStamp ==
    /\ pc = "notify"
    /\ \E o \in NotifyOutcomes :
         LET n == NotifyWebhook(args.webhook, o)
         IN /\ cur' = [cur EXCEPT !.notes = Append(@, n)]
            /\ IF n = "post_failed"
               THEN NextProc
               ELSE /\ pc' = "stamp"
                    /\ UNCHANGED <<i, mem_mb, cpu, action_taken>>
    /\ UNCHANGED <<args, is_main, now, last_action, procs, last_disp>>
    /\ UNCHANGED act_stamp

\* Line 122.
Notify ==
    /\ pc = "notify"
    /\ \E o \in NotifyOutcomes :
         cur' = [cur EXCEPT !.notes = Append(@, NotifyWebhook(args.webhook, o))]
    /\ pc' = "stamp"
    /\ UNCHANGED <<args, is_main, now, last_action, procs, i, mem_mb, cpu,
                   action_taken, last_disp>>
    /\ UNCHANGED act_stamp

\* Line 123, then the next iteration of the for loop.
Stamp ==
    /\ pc = "stamp"
    /\ last_action' = now
    /\ cur' = Finished(cur)
    /\ NextProc
    /\ UNCHANGED <<args, is_main, now, procs, last_disp>>
    /\ act_stamp' = IF cur.inv # <<>> THEN now ELSE act_stamp

Min(a, b) == IF a < b THEN a ELSE b

\* Lines 127-129: time.sleep(args.interval), then the test of __name__.
\* A reading past MaxTime is held at MaxTime, so the loop is never stopped
\* by the horizon of the clock.
Sleep ==
    /\ pc = "sleep"
    /\ now' = Min(now + args.interval, MaxTime)
    /\ pc' = IF is_main THEN "validate" ELSE "resolve"
    /\ cur' = NoTrigger
    /\ UNCHANGED <<args, is_main, last_action, procs, i, mem_mb, cpu,
                   action_taken, last_disp>>
    /\ UNCHANGED act_stamp

\* Lines 130-143, reached only from inside the loop: parse the command
\* line, reject a namespace with no selector (parser.error exits), or
\* call main(args) again.
Validate ==
    /\ pc = "validate"
    /\ \E a \in ParsedArgs :
         /\ args' = a
         /\ pc' = IF ~a.name /\ ~a.pid THEN "exited" ELSE "main"
    /\ cur' = NoTrigger
    /\ UNCHANGED <<is_main, now, last_action, procs, i, mem_mb, cpu,
                   action_taken, last_disp>>
    /\ UNCHANGED act_stamp

\* The statements that read the clock: the gate tests and the two stamps.
ClockPcs == {"notfound", "svc", "cmd", "kill", "stamp", "nf_stamp"}

\* The clock moves while the loop runs; the program sees it at its reads.
TimePasses ==
    /\ pc \in ClockPcs
    /\ now < MaxTime
    /\ now' = now + 1
    /\ UNCHANGED <<args, is_main, pc, last_action, procs, i, mem_mb, cpu,
                   action_taken, cur, last_disp>>
    /\ UNCHANGED act_stamp

Step ==
    \/ Main \/ Resolve \/ NotFound \/ NfNotify \/ NfStamp \/ Sample \/ Evaluate
    \/ StepService \/ StepStartCmd \/ StepKill \/ Notify \/ Stamp
    \/ Sleep \/ Validate

Next == Step \/ TimePasses

Spec == Init /\ [][Next]_vars

\* The interpreter keeps running main(): every enabled step is taken.
FairSpec == Spec /\ WF_vars(Step)

\* The threshold test on its own, over every pair of thresholds: one handle
\* is resolved and sampled, and line 106 decides.
TripsArgs ==
    {a \in ArgSpace : a.name /\ ~a.pid /\ ~a.webhook}

TripsInit ==
    /\ args \in TripsArgs
    /\ is_main = FALSE
    /\ pc = "main"
    /\ now = 1
    /\ last_action = None
    /\ procs = 0
    /\ i = 1
    /\ mem_mb = None
    /\ cpu = None
    /\ action_taken = FALSE
    /\ cur = NoTrigger
    /\ last_disp = None
    /\ act_stamp = None

TripsNext == Main \/ Resolve \/ Sample \/ Evaluate

SpecTrips == TripsInit /\ [][TripsNext]_vars

\* ================================================================ claims

\* C1 (as claimed): two strategy invocations made for different triggers
\* are at least cooldown apart; only the first of the run is exempt.
C1_CooldownSpacing ==
    (cur.first # None /\ cur.prev # None)
        => cur.first - cur.prev >= args.cooldown

\* C2 (as claimed): a threshold trip detected while the gate is closed
\* invokes no strategy and leaves last_action_time as it was.
C2_ClosedGateTripNoChange ==
    (/\ cur.kind = "trip"
     /\ cur.done
     /\ cur.la0 # None
     /\ ~(cur.t0 - cur.la0 > args.cooldown))
        => (cur.inv = <<>> /\ last_action = cur.la0)

\* C3: with a service name and a start command configured, a trip whose
\* service restart reports success invokes neither the start command nor
\* the terminate-and-restart fallback.
C3_ServiceSuccessStops ==
    (/\ cur.kind = "trip"
     /\ args.service
     /\ args.start_cmd
     /\ \E k \in DOMAIN cur.inv : cur.inv[k].s = "svc" /\ cur.inv[k].ok)
        => \A k \in DOMAIN cur.inv : cur.inv[k].s \notin {"cmd", "kill"}

C3_Witness ==
    /\ cur.kind = "trip"
    /\ cur.done
    /\ args.service
    /\ args.start_cmd
    /\ Len(cur.inv) = 1
    /\ cur.inv[1].s = "svc"
    /\ cur.inv[1].ok

\* C4 (as claimed): every step that completes a trigger for which a
\* strategy was invoked leaves last_action_time at the current time,
\* whatever the outcome.
C4_StampOnCompletion ==
    [][(~cur.done /\ cur'.done /\ cur'.inv # <<>>)
          => last_action' = now']_vars

\* C5: the sampled pair trips escalation exactly when the memory threshold
\* is set, non-zero and exceeded, or the CPU threshold is set, non-zero and
\* exceeded; a value equal to its threshold does not trip.
C5_TripIff ==
    [][pc = "eval"
          => ((pc' = "svc" /\ cur'.kind = "trip")
                <=> (\/ (/\ args.max_mem_mb # None
                         /\ args.max_mem_mb # 0
                         /\ mem_mb > args.max_mem_mb)
                     \/ (/\ args.max_cpu # None
                         /\ args.max_cpu # 0
                         /\ cpu > args.max_cpu)))]_vars

\* A trip with the CPU threshold disabled: memory alone tripped it.
C5_Witness ==
    /\ pc = "svc"
    /\ cur.kind = "trip"
    /\ args.max_mem_mb = 1
    /\ args.max_cpu \in {None, 0}

\* C6: a tick that resolves no process never raises; with a start command
\* and the gate open it runs the start command exactly once and nothing
\* else; with no start command or the gate closed it does nothing.
C6_NotFound ==
    /\ pc = "crashed" => cur.kind # "notfound"
    /\ cur.kind = "notfound" =>
          IF args.start_cmd
             /\ (cur.la0 = None \/ cur.t0 - cur.la0 > args.cooldown)
          THEN /\ Len(cur.inv) = 1
               /\ cur.inv[1].s = "cmd"
               /\ cur.inv[1].ops = <<"run">>
          ELSE cur.inv = <<>>

\* A not-found start attempt made once an earlier action's cooldown elapsed.
C6_Witness ==
    /\ cur.kind = "notfound"
    /\ cur.la0 # None
    /\ Len(cur.inv) = 1

\* C7 (as claimed): a not-found tick with a start command and the gate
\* open makes exactly one notifier call, whatever the start command did.
C7_OneNotification ==
    (/\ cur.kind = "notfound"
     /\ cur.done
     /\ args.start_cmd
     /\ (cur.la0 = None \/ cur.t0 - cur.la0 > args.cooldown))
        => (Len(cur.inv) = 1 /\ Len(cur.notes) = 1)

\* C8: with no service name and no start command, a trip detected with the
\* gate open invokes the terminate fallback on the tripping process, once,
\* and launches no restart: no service restart, no start command, no spawn.
C8_FallbackOnly ==
    (/\ cur.kind = "trip"
     /\ cur.done
     /\ ~args.service
     /\ ~args.start_cmd
     /\ (cur.la0 = None \/ cur.t0 - cur.la0 > args.cooldown))
        => /\ Len(cur.inv) = 1
           /\ cur.inv[1].s = "kill"
           /\ \A k \in DOMAIN cur.inv[1].ops :
                 cur.inv[1].ops[k] \in {"terminate", "kill"}
           /\ cur.inv[1].ops # <<>> => cur.inv[1].ops[1] = "terminate"

C8_Witness ==
    /\ cur.kind = "trip"
    /\ cur.done
    /\ ~args.service
    /\ ~args.start_cmd
    /\ Len(cur.inv) = 1
    /\ cur.inv[1].ops = <<"terminate", "kill">>
    /\ cur.inv[1].ok

\* C9: whatever happens in a tick (nothing found, a handle gone, a strategy
\* failing, every strategy failing, the notification failing), the loop
\* reaches its sleep and starts the next tick; the only other way out is
\* the parser rejecting the command line.  (The commands the strategies
\* run are taken to return.)
C9_LoopContinues ==
    [](pc \in (LoopPcs \ {"resolve"})
         => <>(pc = "resolve" \/ pc = "exited"))

\* A further tick begun after a failed start attempt.
C9_Witness ==
    /\ pc = "resolve"
    /\ now > 1
    /\ last_disp # None
    /\ last_action = None

\* C10 (as claimed): with neither a name nor a pid, the program exits
\* before the loop executes a resolve step.
C10_ValidatedBeforeLoop ==
    ~HasSelector(args) => pc \in {"main", "resolve", "exited"}

\* C11: what the notifier call does (no endpoint, requests missing, the
\* POST delivered or failed) has no effect on the run: the step of the
\* notifier call leads to the one successor the code fixes, the stamp of
\* last_action_time, and changes nothing the loop reads, so two runs that
\* differ only in notification outcomes invoke the same strategies and make
\* the same updates to last_action_time.
C11_NotifyNoInterference ==
    [][(pc \in {"notify", "nf_notify"})
          => /\ pc' = (IF pc = "notify" THEN "stamp" ELSE "nf_stamp")
             /\ cur' = [cur EXCEPT !.notes = cur'.notes]
             /\ Len(cur'.notes) = Len(cur.notes) + 1
             /\ UNCHANGED <<args, is_main, now, last_action, procs, i,
                            mem_mb, cpu, action_taken, last_disp,
                            act_stamp>>]_vars

\* The loop about to stamp last_action_time after a failed delivery.
C11_Witness ==
    /\ pc = "stamp"
    /\ cur.notes = <<"post_failed">>
    /\ cur.inv # <<>>

\* C12 (as claimed): under a trip that persists from tick to tick, a trip
\* detected once the cooldown has elapsed since the last recovery action
\* was completed is dispatched: the trips dropped in between do not
\* postpone the reopening of the gate.
C12_GateReopens ==
    (/\ cur.kind = "trip"
     /\ cur.done
     /\ act_stamp # None
     /\ cur.inv = <<>>)
        => ~(cur.t0 - act_stamp > args.cooldown)

\* Reading the history of a trigger: was strategy s invoked, did it report
\* success, and the priority of a strategy.
Has(c, s) == \E k \in DOMAIN c.inv : c.inv[k].s = s
Succeeded(c, s) == \E k \in DOMAIN c.inv : c.inv[k].s = s /\ c.inv[k].ok
Rank(s) == CASE s = "svc" -> 1 [] s = "cmd" -> 2 [] s = "kill" -> 3

\* C13: within one trip the strategies are invoked in priority order, each
\* at most once; with the gate open the service restart runs if configured,
\* the start command runs if configured and the service restart did not
\* succeed, and the terminate fallback runs exactly when no earlier
\* strategy reported success.
C13_FallThrough ==
    cur.kind = "trip" =>
      /\ \A j, k \in DOMAIN cur.inv :
            j < k => Rank(cur.inv[j].s) < Rank(cur.inv[k].s)
      /\ (cur.done /\ (cur.la0 = None \/ cur.t0 - cur.la0 > args.cooldown))
            => /\ Has(cur, "svc") <=> args.service
               /\ Has(cur, "cmd")
                    <=> (args.start_cmd /\ ~Succeeded(cur, "svc"))
               /\ Has(cur, "kill")
                    <=> (~Succeeded(cur, "svc") /\ ~Succeeded(cur, "cmd"))

\* All three strategies tried in turn: service restart and start command
\* failed, the fallback ran.
C13_Witness ==
    /\ cur.kind = "trip"
    /\ cur.done
    /\ Len(cur.inv) = 3
    /\ ~cur.inv[1].ok
    /\ ~cur.inv[2].ok
    /\ cur.inv[3].s = "kill"

\* C14 (as claimed): the per-step gate checks select the same strategies as
\* one gate check per trigger: a later strategy is never invoked when a
\* configured earlier strategy was skipped, so a trigger whose first gate
\* check found the gate closed invokes no strategy at all.
C14_OncePerTrigger ==
    cur.kind = "trip" =>
      /\ (Has(cur, "cmd") /\ args.service) => Has(cur, "svc")
      /\ Has(cur, "kill")
            => /\ args.service => Has(cur, "svc")
               /\ (args.start_cmd /\ ~Succeeded(cur, "svc"))
                     => Has(cur, "cmd")

\* C15 (as claimed): the notifier is called for a trip only after the
\* escalation ran with the gate open: a trip for which every gate check
\* found the gate closed, so that no strategy was invoked, makes no
\* notifier call.
C15_NotifyOnlyAfterEscalation ==
    (cur.kind = "trip" /\ cur.inv = <<>>) => cur.notes = <<>>

\* C16 (as claimed): one gate is shared by all processes and both trigger
\* kinds: a threshold trip invokes a strategy only when more than the
\* cooldown has passed since the latest strategy invocation made for an
\* earlier trigger, whichever process or trigger kind that was for.
C16_SharedGate ==
    (cur.kind = "trip" /\ cur.prev # None /\ cur.first # None)
        => cur.first - cur.prev > args.cooldown

\* C17 (as claimed): in the terminate fallback the graceful termination
\* request comes first, the forceful kill is issued at most once and only
\* after it, a start command that is configured is launched after every
\* forceful kill, and nothing is launched when none is configured.
C17_TerminateOrdering ==
    \A k \in DOMAIN cur.inv :
        cur.inv[k].s = "kill" =>
            LET ops == cur.inv[k].ops
                Kills == {j \in DOMAIN ops : ops[j] = "kill"}
            IN /\ ops # <<>> => ops[1] = "terminate"
               /\ Kills \subseteq {2}
               /\ (Kills # {} /\ args.start_cmd)
                     => (Len(ops) = 3 /\ ops[3] = "spawn")
               /\ ~args.start_cmd
                     => \A j \in DOMAIN ops : ops[j] # "spawn"

\* C18: a handle that becomes invalid while it is sampled is skipped: the
\* step invokes no strategy, makes no notifier call and leaves
\* last_action_time alone, and the loop goes on to sample the next resolved
\* process of the tick, or to the sleep when there is none left.
C18_GoneSkipped ==
    [][(pc = "loop" /\ pc' # "eval")
          => /\ cur'.kind = "gone"
             /\ cur'.inv = <<>>
             /\ cur'.notes = <<>>
             /\ UNCHANGED <<args, procs, now, last_action, last_disp,
                            act_stamp>>
             /\ IF i < procs
                THEN pc' = "loop" /\ i' = i + 1
                ELSE pc' = "sleep"]_vars

\* The first handle of a tick vanished and the second is about to be
\* sampled.
C18_Witness ==
    /\ cur.kind = "gone"
    /\ pc = "loop"
    /\ i = 2

\* The gate predicate as specified, on the current state.
SpecGate == last_action = None \/ now - last_action > args.cooldown

\* C19: every gated step dispatches its strategy exactly when its other
\* conditions hold and last_action_time is none or now - last_action_time
\* exceeds cooldown_seconds: the not-found start attempt and each of the
\* three escalation steps.
C19_GatePredicate ==
    [][/\ (pc = "notfound" /\ pc' # pc)
            => (Has(cur', "cmd") <=> (args.start_cmd /\ SpecGate))
       /\ (pc = "svc" /\ pc' # pc)
            => (Has(cur', "svc") <=> (args.service /\ SpecGate))
       /\ (pc = "cmd" /\ pc' # pc)
            => (Has(cur', "cmd")
                  <=> (~action_taken /\ args.start_cmd /\ SpecGate))
       /\ (pc = "kill" /\ pc' # pc)
            => (Has(cur', "kill") <=> (~action_taken /\ SpecGate))]_vars

\* A trip whose every gate check was made exactly cooldown_seconds after
\* the last action: nothing was dispatched.
C19_Witness ==
    /\ cur.kind = "trip"
    /\ pc = "notify"
    /\ cur.la0 # None
    /\ now - cur.la0 = args.cooldown
    /\ cur.inv = <<>>

====
